---- MODULE Spec2Model ----
(***************************************************************************)
(* A model of FluidGrid (src/cpp/fluidSim/src/FluidGrid.cpp): the seven    *)
(* heap buffers and the members that point at them, the perturbation entry *)
(* points, and step() as the sequence of its stages, every parallel stage  *)
(* forked over the workers of the thread pool and joined.                  *)
(*                                                                         *)
(* Cell values are exact rationals <<numerator, denominator>>; the float   *)
(* rounding of the source is not modelled.  <<0, 0>> is an indeterminate   *)
(* value: what a read outside a buffer yields, absorbing in arithmetic.    *)
(***************************************************************************)
EXTENDS Integers, Sequences, FiniteSets

(* ------------------------------ bounds --------------------------------- *)

\* The grid size of the stepping model (the size of the end-to-end scenario).
GridSize == 10
\* The largest iteration count handed to step().
MaxIterations == 2
\* How many addDensity/addVelocity calls and how many step calls a run makes.
MaxAdds == 1
MaxSteps == 1
\* The kernel harness: grid sizes 3..MaxSize, at most MaxPokes perturbations.
MaxSize == 4
MaxPokes == 2

(* ----------------------------- rationals ------------------------------- *)

RECURSIVE GCD(_, _)
GCD(a, b) == IF b = 0 THEN a ELSE GCD(b, a % b)

Abs(n) == IF n < 0 THEN -n ELSE n

Garbage == <<0, 0>>

IsGarbage(a) == a[2] = 0

Rat(n, d) ==
  IF d = 0 THEN Garbage
  ELSE LET g == GCD(Abs(n), Abs(d))
           s == IF d < 0 THEN -1 ELSE 1
       IN  <<(s * n) \div g, (s * d) \div g>>

RInt(n) == <<n, 1>>
Zero == <<0, 1>>
One == <<1, 1>>
Half == <<1, 2>>

\* On the least common denominator, to keep the integers small.
RAdd(a, b) == IF IsGarbage(a) \/ IsGarbage(b) THEN Garbage
              ELSE LET g == GCD(a[2], b[2])
                   IN  Rat(a[1] * (b[2] \div g) + b[1] * (a[2] \div g),
                           (a[2] \div g) * b[2])
RNeg(a) == IF IsGarbage(a) THEN Garbage ELSE <<-a[1], a[2]>>
RSub(a, b) == RAdd(a, RNeg(b))
RMul(a, b) == IF IsGarbage(a) \/ IsGarbage(b) THEN Garbage
              ELSE LET g1 == GCD(Abs(a[1]), b[2])
                       g2 == GCD(Abs(b[1]), a[2])
                   IN  <<(a[1] \div g1) * (b[1] \div g2), (a[2] \div g2) * (b[2] \div g1)>>
RInv(a) == IF IsGarbage(a) THEN Garbage ELSE Rat(a[2], a[1])
RLess(a, b) == LET g == GCD(a[2], b[2])
               IN  a[1] * (b[2] \div g) < b[1] * (a[2] \div g)
RLeq(a, b) == ~RLess(b, a)
\* (int)v for a value v >= 0: truncation.
RTrunc(a) == a[1] \div a[2]
\* std::clamp(v, lo, hi)
RClamp(v, lo, hi) == IF RLess(v, lo) THEN lo ELSE IF RLess(hi, v) THEN hi ELSE v

(* --------------------------- memory layout ----------------------------- *)

NULL == 0
\* The seven calloc calls of the constructor, in order.
BufIds == 1..7
Cells(N) == 0..(N * N - 1)
ZeroField(N) == [i \in Cells(N) |-> Zero]
Idx(x, y, N) == x + y * N
Interior(N) == {Idx(x, y, N) : x \in 1..(N - 2), y \in 1..(N - 2)}
Boundary(N) == Cells(N) \ Interior(N)
RowOf(i, N) == i \div N
ColOf(i, N) == i % N

\* The memory holds an entry for each of the seven buffers.
Allocated(m) == DOMAIN m = BufIds

\* arr[i] for a buffer of N*N floats: an index outside it reads whatever lies there.
ReadCell(arr, i, N) == IF i \in Cells(N) THEN arr[i] ELSE Garbage

Directions == {"NONE", "HORIZONTAL", "VERTICAL"}

(* ------------------------- boundary conditions ------------------------- *)

\* One pass of the edge loop of setBounds, for interior index i: left, right,
\* top and bottom edge cells, assigned in the order of the source.
SetBoundsEdges(direction, arr, i, N) ==
  LET a1 == [arr EXCEPT ![Idx(0, i, N)] =
               IF direction = "HORIZONTAL" THEN RNeg(arr[Idx(1, i, N)])
                                           ELSE arr[Idx(1, i, N)]]
      a2 == [a1 EXCEPT ![Idx(N - 1, i, N)] =
               IF direction = "HORIZONTAL" THEN RNeg(a1[Idx(N - 2, i, N)])
                                           ELSE a1[Idx(N - 2, i, N)]]
      a3 == [a2 EXCEPT ![Idx(i, 0, N)] =
               IF direction = "VERTICAL" THEN RNeg(a2[Idx(i, 1, N)])
                                         ELSE a2[Idx(i, 1, N)]]
  IN  [a3 EXCEPT ![Idx(i, N - 1, N)] =
               IF direction = "VERTICAL" THEN RNeg(a3[Idx(i, N - 2, N)])
                                         ELSE a3[Idx(i, N - 2, N)]]

\* for (int i = 1; i < size-1; i++) { edges }
RECURSIVE SetBoundsLoop(_, _, _, _)
SetBoundsLoop(direction, arr, i, N) ==
  IF i < N - 1
  THEN SetBoundsLoop(direction, SetBoundsEdges(direction, arr, i, N), i + 1, N)
  ELSE arr

\* The four corner assignments of setBounds, in the order of the source.
SetBoundsCorners(arr, N) ==
  LET c1 == [arr EXCEPT ![Idx(0, 0, N)] =
               RMul(Half, RAdd(arr[Idx(1, 0, N)], arr[Idx(0, 1, N)]))]
      c2 == [c1 EXCEPT ![Idx(N - 1, 0, N)] =
               RMul(Half, RAdd(c1[Idx(N - 2, 0, N)], c1[Idx(N - 1, 1, N)]))]
      c3 == [c2 EXCEPT ![Idx(0, N - 1, N)] =
               RMul(Half, RAdd(c2[Idx(0, N - 2, N)], c2[Idx(1, N - 1, N)]))]
  IN  [c3 EXCEPT ![Idx(N - 1, N - 1, N)] =
               RMul(Half, RAdd(c3[Idx(N - 2, N - 1, N)], c3[Idx(N - 1, N - 2, N)]))]

\* A reflection applied on the wrong axis.
setBoundsWrongAxis(direction, arr, N) ==
  SetBoundsCorners(
    SetBoundsLoop(IF direction = "HORIZONTAL" THEN "VERTICAL"
                  ELSE IF direction = "VERTICAL" THEN "HORIZONTAL" ELSE "NONE",
                  arr, 1, N), N)

\* The corners averaged before the edges are updated.
setBoundsCornersFirst(direction, arr, N) ==
  SetBoundsLoop(direction, SetBoundsCorners(arr, N), 1, N)

setBounds(direction, arr, N) ==
  SetBoundsCorners(SetBoundsLoop(direction, arr, 1, N), N)

(* -------------------------------- fade --------------------------------- *)

\* A fade that scales by 1 + dt*fadeRate*size.
fadeDensityGrow(dt, fadeRate, arr, N) ==
  LET scaledFadeRate == RAdd(One, RMul(RMul(dt, fadeRate), RInt(N)))
  IN  [i \in Cells(N) |->
         IF i \in Interior(N) THEN RMul(arr[i], scaledFadeRate) ELSE arr[i]]

fadeDensity(dt, fadeRate, arr, N) ==
  LET scaledFadeRate == RSub(One, RMul(RMul(dt, fadeRate), RInt(N)))
  IN  [i \in Cells(N) |->
         IF i \in Interior(N) THEN RMul(arr[i], scaledFadeRate) ELSE arr[i]]

(* ----------------------------- worker pool ----------------------------- *)

\* threadPool.init(6)
WorkerCount == 6
Workers == 1..WorkerCount

\* computeOnThreads(rangeSize, work): [0, rangeSize) cut into WorkerCount
\* contiguous chunks, the remainder spread over the first chunks.
ChunkStart(w, rangeSize) ==
  LET base == rangeSize \div WorkerCount
      rem == rangeSize % WorkerCount
  IN  (w - 1) * base + (IF w - 1 < rem THEN w - 1 ELSE rem)

ChunkEnd(w, rangeSize) == ChunkStart(w + 1, rangeSize)

(* ------------------------------- kernels ------------------------------- *)

\* The columns of one row that a kernel visits: the 8-lane blocks starting at
\* x = 1, 9, ... while x < size - 9, then the scalar remainder up to size - 2.
VectorBlocks(N) == IF N > 10 THEN (N - 3) \div 8 ELSE 0
VectorCols(N) == 1..(8 * VectorBlocks(N))
ScalarCols(N) == (8 * VectorBlocks(N) + 1)..(N - 2)
KernelCols(N) == VectorCols(N) \cup ScalarCols(N)

\* The cells a kernel run over rows [startIndex, endIndex) visits, in order.
RowCells(startIndex, endIndex, N) ==
  LET w == Cardinality(KernelCols(N))
      n == IF endIndex > startIndex THEN (endIndex - startIndex) * w ELSE 0
  IN  [k \in 1..n |-> Idx(1 + ((k - 1) % w), startIndex + ((k - 1) \div w), N)]

\* linearSolveLoop, one cell: tmp[i] = (prevArr[i] + k * (up + down + left + right)) / scaling
LinearSolveCell(m, i, f, tmpPtr, N) ==
  LET neighbors == RMul(f.neighborDiffusion,
                     RAdd(RAdd(RAdd(ReadCell(m[f.arr], i - N, N),
                                    ReadCell(m[f.arr], i + N, N)),
                               ReadCell(m[f.arr], i - 1, N)),
                          ReadCell(m[f.arr], i + 1, N)))
      previous == ReadCell(m[f.prevArr], i, N)
  IN  [m EXCEPT ![tmpPtr][i] = RMul(RAdd(previous, neighbors), f.reciprocalScaling)]

\* The loops of a kernel visit cells[k..] in order, each cell on the memory the
\* cells before it left (Allocated(next) holds of every memory: the test only
\* makes the evaluation of one cell end before the next begins).
RECURSIVE linearSolveLoop(_, _, _, _, _, _)
linearSolveLoop(m, cells, k, f, tmpPtr, N) ==
  IF k > Len(cells) THEN m
  ELSE LET next == LinearSolveCell(m, cells[k], f, tmpPtr, N)
       IN  IF Allocated(next) THEN linearSolveLoop(next, cells, k + 1, f, tmpPtr, N) ELSE m

\* projectHeightMapLoop, one cell.
ProjectHeightMapCell(m, i, f, N) ==
  LET sizeReciprocal == Rat(1, N)
      sum == RAdd(RSub(ReadCell(m[f.velX], i - 1, N), ReadCell(m[f.velX], i + 1, N)),
                  RSub(ReadCell(m[f.velY], i - N, N), ReadCell(m[f.velY], i + N, N)))
      m1 == [m EXCEPT ![f.div][i] = RMul(RMul(RNeg(Half), sum), sizeReciprocal)]
  IN  [m1 EXCEPT ![f.p][i] = Zero]

RECURSIVE projectHeightMapLoop(_, _, _, _, _)
projectHeightMapLoop(m, cells, k, f, N) ==
  IF k > Len(cells) THEN m
  ELSE LET next == ProjectHeightMapCell(m, cells[k], f, N)
       IN  IF Allocated(next) THEN projectHeightMapLoop(next, cells, k + 1, f, N) ELSE m

\* projectMassConservLoop, one cell: it updates the members velocityX and
\* velocityY (vX, vY), not the pointers project was called with.
ProjectMassConservCell(m, i, f, vX, vY, N) ==
  LET gx == RMul(RMul(Half, RSub(ReadCell(m[f.p], i - 1, N), ReadCell(m[f.p], i + 1, N))),
                 RInt(N))
      m1 == [m EXCEPT ![vX][i] = RSub(m[vX][i], gx)]
      gy == RMul(RMul(Half, RSub(ReadCell(m1[f.p], i - N, N), ReadCell(m1[f.p], i + N, N))),
                 RInt(N))
  IN  [m1 EXCEPT ![vY][i] = RSub(m1[vY][i], gy)]

RECURSIVE projectMassConservLoop(_, _, _, _, _, _, _)
projectMassConservLoop(m, cells, k, f, vX, vY, N) ==
  IF k > Len(cells) THEN m
  ELSE LET next == ProjectMassConservCell(m, cells[k], f, vX, vY, N)
       IN  IF Allocated(next)
           THEN projectMassConservLoop(next, cells, k + 1, f, vX, vY, N) ELSE m

\* advectLoop, one cell: the backtrace, the clamp and the bilinear interpolation.
AdvectCell(m, i, f, N) ==
  LET x == ColOf(i, N)
      y == RowOf(i, N)
      scaling == RMul(f.dt, RInt(N))
      maxClamp == Rat(2 * N - 3, 2)
      vx == ReadCell(m[f.velX], i, N)
      vy == ReadCell(m[f.velY], i, N)
  IN  IF IsGarbage(vx) \/ IsGarbage(vy) THEN [m EXCEPT ![f.arr][i] = Garbage]
      ELSE
      LET prevX == RClamp(RSub(RInt(x), RMul(vx, scaling)), Half, maxClamp)
          prevY == RClamp(RSub(RInt(y), RMul(vy, scaling)), Half, maxClamp)
          prevXInt == RTrunc(prevX)
          prevYInt == RTrunc(prevY)
          prevXDecimals == RSub(prevX, RInt(prevXInt))
          prevXRemainingDecimals == RSub(One, prevXDecimals)
          prevYDecimals == RSub(prevY, RInt(prevYInt))
          prevYRemainingDecimals == RSub(One, prevYDecimals)
          prevArr == m[f.prevArr]
      IN  [m EXCEPT ![f.arr][i] =
            RAdd(RMul(prevXRemainingDecimals,
                      RAdd(RMul(prevYRemainingDecimals,
                                ReadCell(prevArr, Idx(prevXInt, prevYInt, N), N)),
                           RMul(prevYDecimals,
                                ReadCell(prevArr, Idx(prevXInt, prevYInt + 1, N), N)))),
                 RMul(prevXDecimals,
                      RAdd(RMul(prevYRemainingDecimals,
                                ReadCell(prevArr, Idx(prevXInt + 1, prevYInt, N), N)),
                           RMul(prevYDecimals,
                                ReadCell(prevArr, Idx(prevXInt + 1, prevYInt + 1, N), N)))))]

RECURSIVE advectLoop(_, _, _, _, _)
advectLoop(m, cells, k, f, N) ==
  IF k > Len(cells) THEN m
  ELSE LET next == AdvectCell(m, cells[k], f, N)
       IN  IF Allocated(next) THEN advectLoop(next, cells, k + 1, f, N) ELSE m

\* The rows a kernel invoked with (startIndex, endIndex) runs over: advectLoop
\* ignores its range (for (int y = 1; y < size - 1; y++)), the others follow it.
KernelCells(kernel, startIndex, endIndex, N) ==
  IF kernel = "advect" THEN RowCells(1, N - 1, N)
  ELSE RowCells(startIndex, endIndex, N)

(* -------------------------------- state -------------------------------- *)

VARIABLES
  status,         \* "new", "live", "failed" (the constructor threw), "crashed", "destroyed"
  size,
  density, prevDensity, velocityX, prevVelocityX, velocityY, prevVelocityY, tmp,
  mem,            \* buffer id -> its N*N cells
  freed,          \* buffer id -> how many times free() was called on it
  pc,             \* where step() stands: "idle" outside a call
  stage,          \* the index of the current statement of step(), 0 outside a call
  args,           \* the arguments of the current (or last) step call
  ls,             \* the frame of linearSolve: its parameters and loop counter
  proj,           \* the frame of project: velX, velY, p, div
  adv,            \* the frame of advect
  pending,        \* the workers of the current computeOnThreads call still to run
  writes,         \* worker -> the cell indices it wrote in the last computeOnThreads call
  hist,           \* the calls made on the grid, in order
  snap            \* density and velocity as they were when the last call began

members == <<density, prevDensity, velocityX, prevVelocityX, velocityY, prevVelocityY, tmp>>
frames == <<ls, proj, adv>>
vars == <<status, size, members, mem, freed, pc, stage, args, frames, pending, writes,
          hist, snap>>

NoArgs == [dt |-> Zero, iterations |-> 0, diffusionRate |-> Zero, viscosity |-> Zero,
           fadeRate |-> Zero]
NoLs == [direction |-> "NONE", arr |-> NULL, prevArr |-> NULL, neighborDiffusion |-> Zero,
         reciprocalScaling |-> One, iteration |-> 0, iterations |-> 0,
         target |-> "none", caller |-> "none"]
NoProj == [velX |-> NULL, velY |-> NULL, p |-> NULL, div |-> NULL]
NoAdv == [direction |-> "NONE", arr |-> NULL, prevArr |-> NULL, velX |-> NULL,
          velY |-> NULL, dt |-> Zero]
NoWrites == [w \in Workers |-> {}]
NoSnap == [density |-> <<>>, velocityX |-> <<>>, velocityY |-> <<>>]

CallRec(op, x, y, amountX, amountY, dt, a) ==
  [op |-> op, x |-> x, y |-> y, amountX |-> amountX, amountY |-> amountY, dt |-> dt,
   iterations |-> a.iterations, diffusionRate |-> a.diffusionRate,
   viscosity |-> a.viscosity, fadeRate |-> a.fadeRate]

Calls(op) == Cardinality({k \in 1..Len(hist) : hist[k].op = op})

\* What getDensity() and the two current velocity members show.
Fields == [density |-> mem[density], velocityX |-> mem[velocityX],
           velocityY |-> mem[velocityY]]

(* ----------------------------- construction ---------------------------- *)

\* FluidGrid(size): ok[b] says whether the b-th calloc succeeds.
Construct(n, ok) ==
  LET ptr(b) == IF ok[b] THEN b ELSE NULL IN
  /\ status = "new"
  /\ density' = ptr(1)
  /\ prevDensity' = ptr(2)
  /\ velocityX' = ptr(3)
  /\ prevVelocityX' = ptr(4)
  /\ velocityY' = ptr(5)
  /\ prevVelocityY' = ptr(6)
  /\ tmp' = ptr(7)
  /\ mem' = [b \in BufIds |-> IF ok[b] THEN ZeroField(n) ELSE <<>>]
  /\ IF ptr(1) # NULL /\ ptr(2) # NULL /\ ptr(3) # NULL /\ ptr(4) # NULL
        /\ ptr(5) # NULL /\ ptr(6) # NULL
     THEN status' = "live" /\ size' = n
     ELSE status' = "failed" /\ size' = size
  /\ UNCHANGED <<freed, pc, stage, args, frames, pending, writes, hist, snap>>

\* ~FluidGrid(): free() of each member; free(NULL) does nothing.
Destroy ==
  /\ status = "live"
  /\ pc = "idle"
  /\ freed' = [b \in BufIds |->
       Cardinality({k \in 1..7 : members[k] = b})]
  /\ status' = "destroyed"
  /\ UNCHANGED <<size, members, mem, pc, stage, args, frames, pending, writes, hist, snap>>

(* ----------------------------- perturbation ---------------------------- *)

addDensity(x, y, amount, dt) ==
  /\ status = "live"
  /\ pc = "idle"
  /\ mem' = [mem EXCEPT ![density][Idx(x, y, size)] =
               RAdd(@, RMul(RMul(amount, dt), RInt(size)))]
  /\ hist' = Append(hist, CallRec("addDensity", x, y, amount, Zero, dt, NoArgs))
  /\ UNCHANGED <<status, size, members, freed, pc, stage, args, frames, pending, writes,
                 snap>>

addVelocity(x, y, amountX, amountY, dt) ==
  /\ status = "live"
  /\ pc = "idle"
  /\ mem' = LET m1 == [mem EXCEPT ![velocityX][Idx(x, y, size)] =
                         RAdd(@, RMul(RMul(amountX, dt), RInt(size)))]
            IN  [m1 EXCEPT ![velocityY][Idx(x, y, size)] =
                         RAdd(@, RMul(RMul(amountY, dt), RInt(size)))]
  /\ hist' = Append(hist, CallRec("addVelocity", x, y, amountX, amountY, dt, NoArgs))
  /\ UNCHANGED <<status, size, members, freed, pc, stage, args, frames, pending, writes,
                 snap>>

(* -------------------------------- step --------------------------------- *)

\* The statements of step(), in order (the timers left out).
StepProg == <<"swapVelocityX", "diffuseVelocityX", "swapVelocityY", "diffuseVelocityY",
              "project", "swapVelocityX", "swapVelocityY", "advectVelocityX",
              "advectVelocityY", "project", "swapDensity", "diffuseDensity",
              "swapDensity", "advectDensity", "fadeDensity", "checkPrint">>

AtStage(ops) == status = "live" /\ pc = "stage" /\ StepProg[stage] \in ops

step(dt, iterations, diffusionRate, viscosity, fadeRate) ==
  /\ status = "live"
  /\ pc = "idle"
  /\ args' = [dt |-> dt, iterations |-> iterations, diffusionRate |-> diffusionRate,
              viscosity |-> viscosity, fadeRate |-> fadeRate]
  /\ hist' = Append(hist, CallRec("step", 0, 0, Zero, Zero, dt, args'))
  /\ snap' = Fields
  /\ pc' = "stage"
  /\ stage' = 1
  /\ UNCHANGED <<status, size, members, mem, freed, frames, pending, writes>>

\* std::swap(this->velocityX, this->prevVelocityX) and its like.
SwapCurrentPrev ==
  /\ AtStage({"swapVelocityX", "swapVelocityY", "swapDensity"})
  /\ CASE StepProg[stage] = "swapVelocityX" ->
            /\ velocityX' = prevVelocityX /\ prevVelocityX' = velocityX
            /\ UNCHANGED <<density, prevDensity, velocityY, prevVelocityY>>
       [] StepProg[stage] = "swapVelocityY" ->
            /\ velocityY' = prevVelocityY /\ prevVelocityY' = velocityY
            /\ UNCHANGED <<density, prevDensity, velocityX, prevVelocityX>>
       [] StepProg[stage] = "swapDensity" ->
            /\ density' = prevDensity /\ prevDensity' = density
            /\ UNCHANGED <<velocityX, prevVelocityX, velocityY, prevVelocityY>>
  /\ stage' = stage + 1
  /\ UNCHANGED <<status, size, tmp, mem, freed, pc, args, frames, pending, writes, hist,
                 snap>>

\* diffuse(direction, iterations, arr, prevArr, dt, diffusion): the coefficients,
\* then the call of linearSolve.
diffuse(direction, target, arr, prevArr, diffusion) ==
  LET neighborDiffusion == RMul(RMul(RMul(diffusion, args.dt), RInt(size)), RInt(size))
      scaling == RAdd(One, RMul(RInt(4), neighborDiffusion))
  IN  [direction |-> direction, arr |-> arr, prevArr |-> prevArr,
       neighborDiffusion |-> neighborDiffusion, reciprocalScaling |-> RInv(scaling),
       iteration |-> 0, iterations |-> args.iterations,
       target |-> target, caller |-> "diffuse"]

DiffuseCall ==
  /\ AtStage({"diffuseVelocityX", "diffuseVelocityY", "diffuseDensity"})
  /\ ls' = CASE StepProg[stage] = "diffuseVelocityX" ->
                  diffuse("HORIZONTAL", "velocityX", velocityX, prevVelocityX, args.viscosity)
             [] StepProg[stage] = "diffuseVelocityY" ->
                  diffuse("VERTICAL", "velocityY", velocityY, prevVelocityY, args.viscosity)
             [] StepProg[stage] = "diffuseDensity" ->
                  diffuse("NONE", "density", density, prevDensity, args.diffusionRate)
  /\ pc' = "linearSolve"
  /\ UNCHANGED <<status, size, members, mem, freed, stage, args, proj, adv, pending,
                 writes, hist, snap>>

\* The head of the loop of linearSolve: another pass is forked, or the loop ends.
LinearSolveLoop ==
  /\ status = "live"
  /\ pc = "linearSolve"
  /\ IF ls.iteration < ls.iterations
     THEN /\ pc' = "linearSolveLoop"
          /\ pending' = Workers
          /\ writes' = NoWrites
     ELSE /\ pc' = "linearSolveReturn"
          /\ UNCHANGED <<pending, writes>>
  /\ UNCHANGED <<status, size, members, mem, freed, stage, args, frames, hist, snap>>

\* After the join of a relaxation pass: std::swap(tmp, arr) on the parameter arr,
\* then setBounds(direction, arr).
LinearSolveJoin ==
  /\ status = "live"
  /\ pc = "linearSolveLoop"
  /\ pending = {}
  /\ tmp' = ls.arr
  /\ ls' = [ls EXCEPT !.arr = tmp, !.iteration = @ + 1]
  /\ mem' = [mem EXCEPT ![tmp] = setBounds(ls.direction, @, size)]
  /\ pc' = "linearSolve"
  /\ UNCHANGED <<status, size, density, prevDensity, velocityX, prevVelocityX, velocityY,
                 prevVelocityY, freed, stage, args, proj, adv, pending, writes, hist,
                 snap>>

\* linearSolve returns: to step() after a diffuse, into the rest of project otherwise.
LinearSolveReturn ==
  /\ status = "live"
  /\ pc = "linearSolveReturn"
  /\ IF ls.caller = "diffuse"
     THEN /\ pc' = "stage"
          /\ stage' = stage + 1
          /\ UNCHANGED <<pending, writes>>
     ELSE /\ pc' = "projectMassConservLoop"
          /\ pending' = Workers
          /\ writes' = NoWrites
          /\ UNCHANGED stage
  /\ UNCHANGED <<status, size, members, mem, freed, args, frames, hist, snap>>

\* project(iterations, velocityX, velocityY, prevVelocityX, prevVelocityY): the
\* divergence pass is forked.
ProjectCall ==
  /\ AtStage({"project"})
  /\ proj' = [velX |-> velocityX, velY |-> velocityY, p |-> prevVelocityX,
              div |-> prevVelocityY]
  /\ pc' = "projectHeightMapLoop"
  /\ pending' = Workers
  /\ writes' = NoWrites
  /\ UNCHANGED <<status, size, members, mem, freed, stage, args, ls, adv, hist, snap>>

\* After the join of the divergence pass: setBounds on div and p, then
\* linearSolve(NONE, iterations, p, div, 1, 4).
ProjectHeightMapJoin ==
  /\ status = "live"
  /\ pc = "projectHeightMapLoop"
  /\ pending = {}
  /\ mem' = LET m1 == [mem EXCEPT ![proj.div] = setBounds("NONE", @, size)]
            IN  [m1 EXCEPT ![proj.p] = setBounds("NONE", @, size)]
  /\ ls' = [direction |-> "NONE", arr |-> proj.p, prevArr |-> proj.div,
            neighborDiffusion |-> One, reciprocalScaling |-> RInv(RInt(4)),
            iteration |-> 0, iterations |-> args.iterations,
            target |-> "p", caller |-> "project"]
  /\ pc' = "linearSolve"
  /\ UNCHANGED <<status, size, members, freed, stage, args, proj, adv, pending, writes,
                 hist, snap>>

\* After the join of the gradient pass: setBounds on the members velocityX, velocityY.
ProjectMassConservJoin ==
  /\ status = "live"
  /\ pc = "projectMassConservLoop"
  /\ pending = {}
  /\ mem' = LET m1 == [mem EXCEPT ![velocityX] = setBounds("HORIZONTAL", @, size)]
            IN  [m1 EXCEPT ![velocityY] = setBounds("VERTICAL", @, size)]
  /\ pc' = "stage"
  /\ stage' = stage + 1
  /\ UNCHANGED <<status, size, members, freed, args, frames, pending, writes, hist, snap>>

\* advect(direction, arr, prevArr, velX, velY, dt): the pass is forked.
AdvectCall ==
  /\ AtStage({"advectVelocityX", "advectVelocityY", "advectDensity"})
  /\ adv' = CASE StepProg[stage] = "advectVelocityX" ->
                   [direction |-> "HORIZONTAL", arr |-> velocityX, prevArr |-> prevVelocityX,
                    velX |-> prevVelocityX, velY |-> prevVelocityY, dt |-> args.dt]
              [] StepProg[stage] = "advectVelocityY" ->
                   [direction |-> "VERTICAL", arr |-> velocityY, prevArr |-> prevVelocityY,
                    velX |-> prevVelocityX, velY |-> prevVelocityY, dt |-> args.dt]
              [] StepProg[stage] = "advectDensity" ->
                   [direction |-> "NONE", arr |-> density, prevArr |-> prevDensity,
                    velX |-> velocityX, velY |-> velocityY, dt |-> args.dt]
  /\ pc' = "advectLoop"
  /\ pending' = Workers
  /\ writes' = NoWrites
  /\ UNCHANGED <<status, size, members, mem, freed, stage, args, ls, proj, hist, snap>>

\* After the join of the advection pass: setBounds(direction, arr).
AdvectJoin ==
  /\ status = "live"
  /\ pc = "advectLoop"
  /\ pending = {}
  /\ mem' = [mem EXCEPT ![adv.arr] = setBounds(adv.direction, @, size)]
  /\ pc' = "stage"
  /\ stage' = stage + 1
  /\ UNCHANGED <<status, size, members, freed, args, frames, pending, writes, hist, snap>>

\* work(startIndex, endIndex) of the current computeOnThreads call, as worker w
\* runs it on its chunk of [0, size).
RunChunk(m, w) ==
  LET kernel == IF pc = "advectLoop" THEN "advect" ELSE pc
      cells == KernelCells(kernel, ChunkStart(w, size), ChunkEnd(w, size), size)
  IN  CASE pc = "linearSolveLoop" -> linearSolveLoop(m, cells, 1, ls, tmp, size)
        [] pc = "projectHeightMapLoop" -> projectHeightMapLoop(m, cells, 1, proj, size)
        [] pc = "projectMassConservLoop" ->
             projectMassConservLoop(m, cells, 1, proj, velocityX, velocityY, size)
        [] pc = "advectLoop" -> advectLoop(m, cells, 1, adv, size)

ChunkWrites(w) ==
  LET kernel == IF pc = "advectLoop" THEN "advect" ELSE pc
      cells == KernelCells(kernel, ChunkStart(w, size), ChunkEnd(w, size), size)
  IN  {cells[k] : k \in 1..Len(cells)}

\* The buffers the current kernel stores to, and those it loads from.
WriteBufs ==
  CASE pc = "linearSolveLoop" -> {tmp}
    [] pc = "projectHeightMapLoop" -> {proj.div, proj.p}
    [] pc = "projectMassConservLoop" -> {velocityX, velocityY}
    [] pc = "advectLoop" -> {adv.arr}

ReadBufs ==
  CASE pc = "linearSolveLoop" -> {ls.arr, ls.prevArr}
    [] pc = "projectHeightMapLoop" -> {proj.velX, proj.velY}
    [] pc = "projectMassConservLoop" -> {proj.p}
    [] pc = "advectLoop" -> {adv.prevArr, adv.velX, adv.velY}

\* The orders in which the chunks may complete.  When no worker loads from a
\* buffer another stores to, every order gives the same cells, and one stands
\* for all (in an advection pass every worker then stores the same values to
\* the same cells, and one run stands for the six); otherwise each order is a
\* possible outcome of the race.
Schedules ==
  IF WriteBufs \cap ReadBufs = {}
  THEN IF pc = "advectLoop" THEN {<<1>>} ELSE {[k \in 1..WorkerCount |-> k]}
  ELSE {o \in [1..WorkerCount -> Workers] :
          \A j, k \in 1..WorkerCount : j # k => o[j] # o[k]}

RECURSIVE RunSchedule(_, _, _)
RunSchedule(m, order, k) ==
  IF k > Len(order) THEN m
  ELSE LET next == RunChunk(m, order[k])
       IN  IF Allocated(next) THEN RunSchedule(next, order, k + 1) ELSE m

\* threadPool.computeOnThreads(size, work): every worker runs its chunk, and the
\* caller is released when all have.  A relaxation pass stores through tmp: a
\* null tmp is a fault.
ComputeOnThreads ==
  /\ status = "live"
  /\ pc \in {"linearSolveLoop", "projectHeightMapLoop", "projectMassConservLoop",
             "advectLoop"}
  /\ pending # {}
  /\ IF NULL \in WriteBufs
     THEN /\ status' = "crashed"
          /\ UNCHANGED <<mem, pending, writes>>
     ELSE /\ \E order \in Schedules : mem' = RunSchedule(mem, order, 1)
          /\ pending' = {}
          /\ writes' = [w \in Workers |-> ChunkWrites(w)]
          /\ UNCHANGED status
  /\ UNCHANGED <<size, members, freed, pc, stage, args, frames, hist, snap>>

\* fadeDensity(dt, fadeRate), the last stage before the timers are printed.
FadeDensity ==
  /\ AtStage({"fadeDensity"})
  /\ mem' = [mem EXCEPT ![density] = fadeDensity(args.dt, args.fadeRate, @, size)]
  /\ stage' = stage + 1
  /\ UNCHANGED <<status, size, members, freed, pc, args, frames, pending, writes, hist,
                 snap>>

\* checkPrint() and the return of step().
StepReturn ==
  /\ AtStage({"checkPrint"})
  /\ pc' = "idle"
  /\ stage' = 0
  /\ UNCHANGED <<status, size, members, mem, freed, args, frames, pending, writes, hist,
                 snap>>

(* ---------------------------- specification ---------------------------- *)

Dts == {Zero, One}
Rates == {Zero, Rat(1, 100)}
FadeRates == {Zero, Rat(1, 20)}
AddCells == {<<5, 5>>}
DensityAmounts == {RInt(100)}
VelocityAmounts == {<<One, Zero>>}

Init ==
  /\ status = "new"
  /\ size = 0
  /\ density = NULL /\ prevDensity = NULL
  /\ velocityX = NULL /\ prevVelocityX = NULL
  /\ velocityY = NULL /\ prevVelocityY = NULL
  /\ tmp = NULL
  /\ mem = [b \in BufIds |-> <<>>]
  /\ freed = [b \in BufIds |-> 0]
  /\ pc = "idle"
  /\ stage = 0
  /\ args = NoArgs
  /\ ls = NoLs
  /\ proj = NoProj
  /\ adv = NoAdv
  /\ pending = {}
  /\ writes = NoWrites
  /\ hist = <<>>
  /\ snap = NoSnap

Next ==
  \/ \E ok \in [BufIds -> BOOLEAN] : Construct(GridSize, ok)
  \/ Destroy
  \/ \E c \in AddCells, a \in DensityAmounts :
       Calls("addDensity") + Calls("addVelocity") < MaxAdds /\ addDensity(c[1], c[2], a, One)
  \/ \E c \in AddCells, a \in VelocityAmounts :
       Calls("addDensity") + Calls("addVelocity") < MaxAdds
         /\ addVelocity(c[1], c[2], a[1], a[2], One)
  \/ \E dt \in Dts, it \in 0..MaxIterations, d \in Rates, v \in Rates, f \in FadeRates :
       Calls("step") < MaxSteps /\ step(dt, it, d, v, f)
  \/ SwapCurrentPrev
  \/ DiffuseCall
  \/ LinearSolveLoop
  \/ ComputeOnThreads
  \/ LinearSolveJoin
  \/ LinearSolveReturn
  \/ ProjectCall
  \/ ProjectHeightMapJoin
  \/ ProjectMassConservJoin
  \/ AdvectCall
  \/ AdvectJoin
  \/ FadeDensity
  \/ StepReturn

Spec == Init /\ [][Next]_vars

(* --------------------------- kernel harness ---------------------------- *)
(* setBounds and fadeDensity applied to the density field of a grid of     *)
(* size 3..MaxSize that addDensity calls have filled: one kernel call ends *)
(* a run, snap holding the field as it was before the call.  addDensity    *)
(* calls commute, so the harness issues them in row-major cell order.      *)

KernelAmounts == {RInt(-1), RInt(2)}
KernelFadeRates == {Zero, Rat(1, 8), Rat(1, 2)}

SetBoundsOp(direction) ==
  CASE direction = "NONE" -> "setBounds(NONE)"
    [] direction = "HORIZONTAL" -> "setBounds(HORIZONTAL)"
    [] direction = "VERTICAL" -> "setBounds(VERTICAL)"

KernelOps == {SetBoundsOp(d) : d \in Directions} \cup {"fadeDensity"}
NoKernelCall == \A k \in 1..Len(hist) : hist[k].op \notin KernelOps
LastOp == IF Len(hist) = 0 THEN "none" ELSE hist[Len(hist)].op
LastCall == hist[Len(hist)]
InCellOrder(x, y) ==
  IF Len(hist) = 0 THEN TRUE
  ELSE Idx(LastCall.x, LastCall.y, size) <= Idx(x, y, size)

\* setBounds(direction, density)
SetBoundsCall(direction) ==
  /\ status = "live"
  /\ pc = "idle"
  /\ NoKernelCall
  /\ snap' = Fields
  /\ mem' = [mem EXCEPT ![density] = setBounds(direction, @, size)]
  /\ hist' = Append(hist, CallRec(SetBoundsOp(direction), 0, 0, Zero, Zero, Zero, NoArgs))
  /\ UNCHANGED <<status, size, members, freed, pc, stage, args, frames, pending, writes>>

\* fadeDensity(dt, fadeRate)
FadeDensityCall(dt, fadeRate) ==
  /\ status = "live"
  /\ pc = "idle"
  /\ NoKernelCall
  /\ snap' = Fields
  /\ mem' = [mem EXCEPT ![density] = fadeDensity(dt, fadeRate, @, size)]
  /\ hist' = Append(hist, CallRec("fadeDensity", 0, 0, Zero, Zero, dt,
                                  [NoArgs EXCEPT !.fadeRate = fadeRate]))
  /\ UNCHANGED <<status, size, members, freed, pc, stage, args, frames, pending, writes>>

InitKernel ==
  /\ status = "live"
  /\ size \in 3..MaxSize
  /\ density = 1 /\ prevDensity = 2
  /\ velocityX = 3 /\ prevVelocityX = 4
  /\ velocityY = 5 /\ prevVelocityY = 6
  /\ tmp = 7
  /\ mem = [b \in BufIds |-> ZeroField(size)]
  /\ freed = [b \in BufIds |-> 0]
  /\ pc = "idle"
  /\ stage = 0
  /\ args = NoArgs
  /\ ls = NoLs
  /\ proj = NoProj
  /\ adv = NoAdv
  /\ pending = {}
  /\ writes = NoWrites
  /\ hist = <<>>
  /\ snap = NoSnap

NextKernel ==
  \/ \E x \in 0..(size - 1), y \in 0..(size - 1), a \in KernelAmounts :
       /\ NoKernelCall
       /\ Calls("addDensity") < MaxPokes
       /\ InCellOrder(x, y)
       /\ addDensity(x, y, a, One)
  \/ \E d \in Directions : SetBoundsCall(d)
  \/ \E f \in KernelFadeRates : FadeDensityCall(One, f)

SpecKernel == InitKernel /\ [][NextKernel]_vars

(* ------------------------------ properties ----------------------------- *)

MemberSet == {members[k] : k \in 1..Len(members)}
AllSevenAllocated == \A b \in BufIds : DOMAIN mem[b] # {}
StepFinished == status = "live" /\ pc = "idle" /\ LastOp = "step"

\* C1: on a freshly constructed grid of size 10, addDensity(5, 5, 100, 1) followed by
\* step(1, 0, 0, 0, 0) leaves the density 1000 at cell (5, 5) and 0 at every other
\* cell, and both velocity fields zero everywhere.
C1_EndToEndScenario ==
  ( /\ status = "live"
    /\ pc = "idle"
    /\ size = 10
    /\ AllSevenAllocated
    /\ hist = << CallRec("addDensity", 5, 5, RInt(100), Zero, One, NoArgs),
                 CallRec("step", 0, 0, Zero, Zero, One, NoArgs) >> )
  => /\ mem[density] = [i \in Cells(10) |-> IF i = Idx(5, 5, 10) THEN RInt(1000) ELSE Zero]
     /\ mem[velocityX] = ZeroField(10)
     /\ mem[velocityY] = ZeroField(10)

\* C2: a step with dt = 0, fadeRate = 0 and at least one solver iteration leaves the
\* density and both velocity fields as they were when the step was called.
C2_ZeroDtIdempotence ==
  ( /\ StepFinished
    /\ AllSevenAllocated
    /\ args.dt = Zero
    /\ args.fadeRate = Zero
    /\ args.iterations >= 1 )
  => Fields = snap

\* C3: in every parallel pass a worker invoked with (startIndex, endIndex) writes only
\* cells of the rows startIndex <= y < endIndex, so that no cell is written by two
\* workers of the same pass.
C3_WorkersWriteOwnRows ==
  AllSevenAllocated
  => /\ \A w \in Workers : \A i \in writes[w] :
          /\ ChunkStart(w, size) <= RowOf(i, size)
          /\ RowOf(i, size) < ChunkEnd(w, size)
     /\ \A v, w \in Workers : v # w => writes[v] \cap writes[w] = {}

\* C4: while the grid is alive its seven buffer members are seven distinct buffers, and
\* destruction frees each of them exactly once.
C4_SevenDistinctBuffers ==
  /\ (status = "live" /\ pc = "idle" /\ AllSevenAllocated) => MemberSet = BufIds
  /\ (status = "destroyed" /\ AllSevenAllocated) => \A b \in BufIds : freed[b] = 1

\* C5: construction fails whenever any of the seven allocations fails, tmp included: a
\* grid that came out of its constructor has seven non-null buffers.
C5_ConstructionChecksAllSeven ==
  status \in {"live", "crashed", "destroyed"} => NULL \notin MemberSet

\* C7: when linearSolve returns after at least one iteration, the member the caller
\* passed holds the result of the last relaxation pass and tmp is another buffer.
SolveTarget ==
  CASE ls.target = "density" -> density
    [] ls.target = "velocityX" -> velocityX
    [] ls.target = "velocityY" -> velocityY
    [] ls.target = "p" -> proj.p
    [] OTHER -> NULL

C7_SolveResultInCallerBuffer ==
  (pc = "linearSolveReturn" /\ ls.iterations >= 1 /\ AllSevenAllocated)
  => /\ SolveTarget = ls.arr
     /\ tmp # SolveTarget

\* C8: with the pool splitting [0, size) into row ranges, no worker of a stencil pass
\* writes a boundary cell; boundary cells are written by setBounds alone.
C8_KernelsWriteInteriorOnly ==
  AllSevenAllocated => \A w \in Workers : writes[w] \cap Boundary(size) = {}

(* Properties of the boundary and fade kernels, stated of SpecKernel. *)

LastIsSetBounds == LastOp \in {SetBoundsOp(d) : d \in Directions}
LastDirection == CHOOSE d \in Directions : SetBoundsOp(d) = LastOp

RECURSIVE SumCells(_, _)
SumCells(arr, S) ==
  IF S = {} THEN Zero
  ELSE LET i == CHOOSE j \in S : TRUE
       IN  RAdd(arr[i], SumCells(arr, S \ {i}))

FadeFactor == RMul(RMul(LastCall.dt, LastCall.fadeRate), RInt(size))
FadeInRange ==
  LastOp = "fadeDensity" /\ RLess(Zero, FadeFactor) /\ RLess(FadeFactor, One)

\* C6 as stated: for any density field, fadeDensity with 0 < dt*fadeRate*size < 1
\* leaves the sum of the interior cells less than or equal to the sum before it.
C6_FadeMonotoneAnyField ==
  FadeInRange
  => RLeq(SumCells(mem[density], Interior(size)), SumCells(snap.density, Interior(size)))

\* C6 amended: when no interior density cell is negative, fadeDensity with
\* 0 < dt*fadeRate*size < 1 leaves no interior cell larger than it was, and so the
\* sum of the interior cells less than or equal to the sum before it.
C6_FadeMonotoneNonNegative ==
  (FadeInRange /\ \A i \in Interior(size) : RLeq(Zero, snap.density[i]))
  => /\ \A i \in Interior(size) : RLeq(mem[density][i], snap.density[i])
     /\ RLeq(SumCells(mem[density], Interior(size)),
             SumCells(snap.density, Interior(size)))

C6_FadedPositiveField ==
  /\ FadeInRange
  /\ \A i \in Interior(size) : RLeq(Zero, snap.density[i])
  /\ RLess(SumCells(mem[density], Interior(size)), SumCells(snap.density, Interior(size)))

\* C9: after setBounds(direction, arr) every left and right edge cell of an interior
\* row equals its inner neighbour, negated when direction is HORIZONTAL; every top and
\* bottom edge cell of an interior column equals its inner neighbour, negated when
\* direction is VERTICAL; and no interior cell is changed.
C9_SetBoundsEdgeRule ==
  LastIsSetBounds
  => LET N == size
         arr == mem[density]
         side(v) == IF LastDirection = "HORIZONTAL" THEN RNeg(v) ELSE v
         lid(v) == IF LastDirection = "VERTICAL" THEN RNeg(v) ELSE v
     IN  /\ \A i \in 1..(N - 2) :
              /\ arr[Idx(0, i, N)] = side(arr[Idx(1, i, N)])
              /\ arr[Idx(N - 1, i, N)] = side(arr[Idx(N - 2, i, N)])
              /\ arr[Idx(i, 0, N)] = lid(arr[Idx(i, 1, N)])
              /\ arr[Idx(i, N - 1, N)] = lid(arr[Idx(i, N - 2, N)])
         /\ \A c \in Interior(N) : arr[c] = snap.density[c]

C9_ReflectedEdge ==
  /\ LastOp = SetBoundsOp("HORIZONTAL")
  /\ \E i \in 1..(size - 2) :
       /\ mem[density][Idx(1, i, size)] # Zero
       /\ mem[density][Idx(0, i, size)] = RNeg(mem[density][Idx(1, i, size)])
       /\ mem[density][Idx(0, i, size)] # snap.density[Idx(0, i, size)]
       /\ mem[density][Idx(i, 0, size)] = mem[density][Idx(i, 1, size)]

\* C10: after setBounds(direction, arr) each of the four corner cells is the average
\* of its two adjacent edge cells as the edge update of the same call left them.
C10_CornerAveraging ==
  LastIsSetBounds
  => LET N == size
         arr == mem[density]
         avg(a, b) == RMul(Half, RAdd(a, b))
     IN  /\ arr[Idx(0, 0, N)] = avg(arr[Idx(1, 0, N)], arr[Idx(0, 1, N)])
         /\ arr[Idx(N - 1, 0, N)] = avg(arr[Idx(N - 2, 0, N)], arr[Idx(N - 1, 1, N)])
         /\ arr[Idx(0, N - 1, N)] = avg(arr[Idx(0, N - 2, N)], arr[Idx(1, N - 1, N)])
         /\ arr[Idx(N - 1, N - 1, N)] =
              avg(arr[Idx(N - 2, N - 1, N)], arr[Idx(N - 1, N - 2, N)])

C10_CornerFromUpdatedEdges ==
  /\ LastIsSetBounds
  /\ mem[density][Idx(0, 0, size)] # Zero
  /\ mem[density][Idx(0, 0, size)] # snap.density[Idx(0, 0, size)]
  /\ mem[density][Idx(1, 0, size)] # snap.density[Idx(1, 0, size)]

====
